---- MODULE Spec2Model ----
(***************************************************************************)
(* Model of patrickfournier/simplespreadsheet (Python 2):                  *)
(*   - the coordinate codec  (SpreadSheet.col_coords, row_coords, coords,  *)
(*     inv_coords),                                                        *)
(*   - the formula engine    (SpreadSheet._cells, tools, __setitem__,      *)
(*     getformula, __getitem__, sum),                                      *)
(*   - the table adapter     (SpreadsheetDirective.resolve).               *)
(* Texts are sequences of one-character strings.  The two source files     *)
(* rst_simplespreadsheet.py and simplespreadsheet.py hold the same class   *)
(* bodies; line numbers in MODEL_MAP.json are those of the first.          *)
(***************************************************************************)
EXTENDS Integers, Sequences, FiniteSets, TLC

VARIABLES
    ccall,      \* codec: the last codec call and its outcome
    cells,      \* SpreadSheet._cells, the class-level dict coordinate -> formula
    tools,      \* SpreadSheet.tools, the class-level dict name -> bound instance
    ninst,      \* number of SpreadSheet instances constructed so far
    last,       \* engine: the last engine call and its outcome
    body,       \* adapter: the table body being resolved (rows of entries)
    pc,         \* adapter: position of resolve()
    row,        \* adapter: loop variable row
    col,        \* adapter: loop variable col
    offset,     \* adapter: loop variable offset
    log         \* adapter: the engine calls resolve() has made in this pass

vars == <<ccall, cells, tools, ninst, last, body, pc, row, col, offset, log>>
codecVars == <<ccall>>
engineVars == <<cells, tools, ninst, last>>
adapterVars == <<body, pc, row, col, offset, log>>

(***************************************************************************)
(* Bounds of the model.                                                    *)
(***************************************************************************)
MaxCol == 18277         \* columns 0..MaxCol are encoded (all names of <= 3 letters)
MaxRow == 2             \* rows 0..MaxRow are encoded, besides BoundaryRows
MaxTextLen == 3         \* arbitrary texts handed to inv_coords have <= MaxTextLen chars
RecursionLimit == 8     \* nested __getitem__ calls the interpreter allows before RuntimeError
MaxInstances == 2       \* SpreadSheet instances constructed in one run of the process
MaxTableRows == 2       \* rows of a table body
MaxTableCells == 3      \* entries of a table body, all rows together
MaxSpan == 2            \* largest morecols of an entry

(***************************************************************************)
(* Characters.                                                             *)
(***************************************************************************)
Letters == << "a", "b", "c", "d", "e", "f", "g", "h", "i", "j", "k", "l", "m",
              "n", "o", "p", "q", "r", "s", "t", "u", "v", "w", "x", "y", "z" >>
Digits == << "0", "1", "2", "3", "4", "5", "6", "7", "8", "9" >>

LetterSet == { Letters[i] : i \in 1..Len(Letters) }
DigitSet == { Digits[i] : i \in 1..Len(Digits) }
LetterValues == [ch \in LetterSet |-> (CHOOSE i \in 1..Len(Letters) : Letters[i] = ch) - 1]
DigitValues == [ch \in DigitSet |-> (CHOOSE i \in 1..Len(Digits) : Digits[i] = ch) - 1]

\* ch in 'a'..'z'  (the class [a-z] of the pattern)
IsLetter(ch) == ch \in LetterSet
\* ch in '0'..'9'  (the class [0-9] of the pattern)
IsDigit(ch) == ch \in DigitSet
\* ord(ch) - ord('a')
LetterValue(ch) == LetterValues[ch]
\* the value of a decimal digit
DigitValue(ch) == DigitValues[ch]

(***************************************************************************)
(* Outcomes of a call: a returned value or a raised exception.             *)
(***************************************************************************)
Return(v) == [ok |-> TRUE, val |-> v, exc |-> "none"]
Raise(e) == [ok |-> FALSE, val |-> 0, exc |-> e]

\* Python 2 "/" on two ints: floor division
PyIntDiv(a, b) == a \div b

(***************************************************************************)
(* Coordinate codec.                                                       *)
(***************************************************************************)
\* the while loop of col_coords, appending where the code prepends
RECURSIVE col_coords_loop_appending(_, _)
col_coords_loop_appending(c, s) ==
    IF c >= 0
    THEN col_coords_loop_appending(PyIntDiv(c, 26) - 1, s \o << Letters[(c % 26) + 1] >>)
    ELSE s

\* while col >= 0: digit = col % 26; s = chr(ord('a') + digit) + s; col = col / 26 - 1
RECURSIVE col_coords_loop(_, _)
col_coords_loop(c, s) ==
    IF c >= 0
    THEN col_coords_loop(PyIntDiv(c, 26) - 1, << Letters[(c % 26) + 1] >> \o s)
    ELSE s

col_coords(c) == col_coords_loop(c, << >>)

\* the value of col after one iteration of the loop of col_coords
col_coords_step(c) == PyIntDiv(c, 26) - 1

\* str(n) for n >= 0
RECURSIVE str(_)
str(n) == IF n < 10 THEN << Digits[n + 1] >>
          ELSE str(n \div 10) \o << Digits[(n % 10) + 1] >>

\* int(t) for a text of decimal digits
RECURSIVE int(_)
int(t) == IF Len(t) = 0 THEN 0
          ELSE 10 * int(SubSeq(t, 1, Len(t) - 1)) + DigitValue(t[Len(t)])

row_coords(r) == str(r + 1)

coords(c, r) == col_coords(c) \o row_coords(r)

\* the end of the longest run of characters of one class that starts at i
RECURSIVE RunEnd(_, _, _)
RunEnd(t, i, letters) ==
    IF i + 1 <= Len(t) /\ (IF letters THEN IsLetter(t[i + 1]) ELSE IsDigit(t[i + 1]))
    THEN RunEnd(t, i + 1, letters)
    ELSE i

\* re.search('([a-z]+)([0-9]+)', c): the leftmost match, both groups greedy;
\* a start i matches iff the letter run from i is directly followed by a digit
MatchStarts(t) ==
    { i \in 1..Len(t) :
        /\ IsLetter(t[i])
        /\ RunEnd(t, i, TRUE) + 1 <= Len(t)
        /\ IsDigit(t[RunEnd(t, i, TRUE) + 1]) }

re_search(t) ==
    IF MatchStarts(t) = {}
    THEN [matched |-> FALSE, group1 |-> << >>, group2 |-> << >>]
    ELSE LET i == CHOOSE j \in MatchStarts(t) : \A k \in MatchStarts(t) : j <= k
             e == RunEnd(t, i, TRUE)
         IN  [matched |-> TRUE,
              group1 |-> SubSeq(t, i, e),
              group2 |-> SubSeq(t, e + 1, RunEnd(t, e + 1, FALSE))]

\* while col_str != '': col += (ord(col_str[-1]) - ord('a') + 1) * m; ...; m *= 26
RECURSIVE inv_col_loop(_, _, _)
inv_col_loop(col_str, c, m) ==
    IF col_str # << >>
    THEN inv_col_loop(SubSeq(col_str, 1, Len(col_str) - 1),
                      c + (LetterValue(col_str[Len(col_str)]) + 1) * m,
                      m * 26)
    ELSE c

\* inv_coords keeping the 1-based row: the "- 1" of the row forgotten
inv_coords_row_one_based(t) ==
    LET r == re_search(t)
    IN  IF ~r.matched THEN Raise("AttributeError")
        ELSE Return(<< inv_col_loop(r.group1, 0, 1) - 1, int(r.group2) >>)

\* inv_coords(c): r.group(1) on a failed search raises AttributeError
inv_coords(t) ==
    LET r == re_search(t)
    IN  IF ~r.matched THEN Raise("AttributeError")
        ELSE Return(<< inv_col_loop(r.group1, 0, 1) - 1, int(r.group2) - 1 >>)

(***************************************************************************)
(* Codec calls: coords(c, r), inv_coords of its result, inv_coords of a    *)
(* text that need not be a coordinate.  A behaviour makes one chain of     *)
(* calls on one input.                                                     *)
(***************************************************************************)
BoundaryRows == {8, 9, 98, 99, 999998, 999999}
Cols == 0..MaxCol
Rows == (0..MaxRow) \cup BoundaryRows

TextAlphabet == {"a", "z", "0", "1", "A", ":"}
RECURSIVE TextsOfLen(_)
TextsOfLen(n) ==
    IF n = 0 THEN {<< >>}
    ELSE {t \o << ch >> : t \in TextsOfLen(n - 1), ch \in TextAlphabet}
Texts == UNION {TextsOfLen(n) : n \in 0..MaxTextLen}

NotCalled == Raise("not called")

\* SpreadSheet.coords(c, r) on some column and row
Coords ==
    /\ ccall.op = "none"
    /\ \E c \in Cols, r \in Rows :
         ccall' = [op |-> "coords", col |-> c, row |-> r, colstr |-> col_coords(c),
                   text |-> coords(c, r), encoded |-> TRUE, out |-> NotCalled]
    /\ UNCHANGED <<engineVars, adapterVars>>

\* SpreadSheet.inv_coords applied to the text coords(c, r) has just returned
InvCoordsOfCoords ==
    /\ ccall.op = "coords"
    /\ ccall' = [ccall EXCEPT !.op = "inv_coords", !.out = inv_coords(ccall.text)]
    /\ UNCHANGED <<engineVars, adapterVars>>

\* SpreadSheet.inv_coords applied to some text
InvCoordsOfText ==
    /\ ccall.op = "none"
    /\ \E t \in Texts :
         ccall' = [op |-> "inv_coords", col |-> 0, row |-> 0, colstr |-> << >>,
                   text |-> t, encoded |-> FALSE, out |-> inv_coords(t)]
    /\ UNCHANGED <<engineVars, adapterVars>>

(***************************************************************************)
(* Formula engine.  A formula is the parse tree Python's eval builds from  *)
(* the stored text: a number, a bare name, a binary operation, or a call   *)
(* of a name on one string literal.                                        *)
(***************************************************************************)
Num(n) == [op |-> "num", n |-> n]
Name(id) == [op |-> "name", id |-> id]
BinOp(f, l, r) == [op |-> "bin", f |-> f, l |-> l, r |-> r]
Call(f, arg) == [op |-> "call", f |-> f, arg |-> arg]

\* an outcome of an evaluation, with the deepest nesting of __getitem__ it reached
Ret(v, p) == [ok |-> TRUE, val |-> v, exc |-> "none", peak |-> p]
Exc(e, p) == [ok |-> FALSE, val |-> 0, exc |-> e, peak |-> p]
Max(a, b) == IF a >= b THEN a ELSE b

\* str.split(sep) that stops at the first separator (split(sep, 1))
split_once(t, sep) ==
    IF \A i \in 1..Len(t) : t[i] # sep THEN << t >>
    ELSE LET i == CHOOSE j \in 1..Len(t) : t[j] = sep /\ \A k \in 1..(j - 1) : t[k] # sep
         IN  << SubSeq(t, 1, i - 1), SubSeq(t, i + 1, Len(t)) >>

\* str.split(sep): the pieces of t between the occurrences of sep
RECURSIVE split(_, _)
split(t, sep) ==
    IF \A i \in 1..Len(t) : t[i] # sep THEN << t >>
    ELSE LET i == CHOOSE j \in 1..Len(t) : t[j] = sep /\ \A k \in 1..(j - 1) : t[k] # sep
         IN  << SubSeq(t, 1, i - 1) >> \o split(SubSeq(t, i + 1, Len(t)), sep)

\* a binary operator of Python 2 applied to two ints
binary_op(f, a, b, p) ==
    CASE f = "+" -> Ret(a + b, p)
      [] f = "*" -> Ret(a * b, p)
      [] f = "/" -> IF b = 0 THEN Exc("ZeroDivisionError", p) ELSE Ret(PyIntDiv(a, b), p)

SumName == << "s", "u", "m" >>

RECURSIVE getitem(_, _, _, _)
RECURSIVE eval(_, _, _, _)
RECURSIVE sum_loop(_, _, _, _, _, _, _, _, _, _)

\* LOAD_NAME in eval(text, tools, self): self[id] first; a KeyError it raises is
\* swallowed and the name is looked up in the globals; not found: NameError.
\* (The names of the formulas of this model are coordinates, never functions.)
load_name(cs, tl, id, d) ==
    LET r == getitem(cs, tl, id, d)
    IN  IF r.ok \/ r.exc # "KeyError" THEN r
        ELSE Exc("NameError", r.peak)

\* SpreadSheet.sum(cells), called with d __getitem__ active
sum(cs, tl, text, d) ==
    LET parts == split(text, ":")
    IN  IF Len(parts) # 2 THEN Exc("ValueError", d)
        ELSE LET first == inv_coords(parts[1])
                 last_ == inv_coords(parts[2])
             IN  IF ~first.ok THEN Exc(first.exc, d)
                 ELSE IF ~last_.ok THEN Exc(last_.exc, d)
                 ELSE sum_loop(cs, tl, first.val[1], first.val[2], first.val[2],
                               last_.val[1], last_.val[2], 0, d, d)

\* for c in xrange(c1, c2+1): for l in xrange(l1, l2+1): s += self[coords(c, l)]
sum_loop(cs, tl, c, l, l1, c2, l2, s, p, d) ==
    IF c > c2 THEN Ret(s, p)
    ELSE IF l > l2 THEN sum_loop(cs, tl, c + 1, l1, l1, c2, l2, s, p, d)
    ELSE LET v == getitem(cs, tl, coords(c, l), d)
         IN  IF ~v.ok THEN Exc(v.exc, Max(p, v.peak))
             ELSE sum_loop(cs, tl, c, l + 1, l1, c2, l2, s + v.val, Max(p, v.peak), d)

\* the evaluation of a parsed formula, operands left to right
eval(cs, tl, e, d) ==
    CASE e.op = "num" -> Ret(e.n, d)
      [] e.op = "name" -> load_name(cs, tl, e.id, d)
      [] e.op = "bin" ->
            LET l == eval(cs, tl, e.l, d)
            IN  IF ~l.ok THEN l
                ELSE LET r == eval(cs, tl, e.r, d)
                     IN  IF ~r.ok THEN Exc(r.exc, Max(l.peak, r.peak))
                         ELSE binary_op(e.f, l.val, r.val, Max(l.peak, r.peak))
      [] e.op = "call" ->
            \* the callee is a name too: no cell has it, so it resolves in tools
            IF e.f \in DOMAIN tl THEN sum(cs, tl, e.arg, d)
            ELSE Exc("NameError", d)

\* SpreadSheet.__getitem__(key): eval(self._cells[key], SpreadSheet.tools, self),
\* entered with d calls of __getitem__ already active
getitem(cs, tl, key, d) ==
    IF d >= RecursionLimit THEN Exc("RuntimeError", d)
    ELSE IF key \notin DOMAIN cs THEN Exc("KeyError", d + 1)
    ELSE eval(cs, tl, cs[key], d + 1)

\* SpreadSheet.getformula(key)
getformula(cs, key) ==
    IF key \in DOMAIN cs THEN Ret(cs[key], 0) ELSE Exc("KeyError", 0)

\* SpreadSheet.__setitem__(key, formula): self._cells is the dict of the class
setitem(cs, key, formula) == (key :> formula) @@ cs

(***************************************************************************)
(* Engine calls.  Formulas are stored under a1, a2, b1; b2 is never set.   *)
(***************************************************************************)
A1 == coords(0, 0)
A2 == coords(0, 1)
B1 == coords(1, 0)
B2 == coords(1, 1)
StoreKeys == {A1, A2, B1}
ReadKeys == StoreKeys \cup {B2}

Range(first, last_) == first \o << ":" >> \o last_

RangeTexts ==
    { Range(A1, A2), Range(A2, A1), Range(A1, B1), Range(A1, B2),
      A1 \o << "-" >> \o A2,
      Range(A1, A2) \o << ":" >> \o B1,
      Range(A1, << "B", "2" >>),
      Range(<< "1" >>, A2) }

Formulas ==
    { Num(5), Num(2), Name(A1), Name(A2), BinOp("/", Name(A1), Name(A2)),
      Call(SumName, Range(A1, A2)),
      Call(SumName, A1 \o << "-" >> \o A2),
      Call(SumName, Range(A1, << "B", "2" >>)) }

\* SpreadSheet(): __init__ binds tools['sum'] to the new instance and nothing else
New ==
    /\ ninst < MaxInstances
    /\ ninst' = ninst + 1
    /\ tools' = (SumName :> (ninst + 1)) @@ tools
    /\ last' = [op |-> "new", key |-> << >>, out |-> Ret(ninst + 1, 0)]
    /\ UNCHANGED <<cells, codecVars, adapterVars>>

\* s[key] = formula
SetItem(key, formula) ==
    /\ ninst >= 1
    /\ cells' = setitem(cells, key, formula)
    /\ last' = [op |-> "setitem", key |-> key, out |-> Ret(0, 0)]
    /\ UNCHANGED <<tools, ninst, codecVars, adapterVars>>

\* s.getformula(key)
GetFormula(key) ==
    /\ ninst >= 1
    /\ last' = [op |-> "getformula", key |-> key, out |-> getformula(cells, key)]
    /\ UNCHANGED <<cells, tools, ninst, codecVars, adapterVars>>

\* s[key]
GetItem(key) ==
    /\ ninst >= 1
    /\ last' = [op |-> "getitem", key |-> key, out |-> getitem(cells, tools, key, 0)]
    /\ UNCHANGED <<cells, tools, ninst, codecVars, adapterVars>>

\* s.sum(text)
Sum(text) ==
    /\ ninst >= 1
    /\ last' = [op |-> "sum", key |-> text, out |-> sum(cells, tools, text, 0)]
    /\ UNCHANGED <<cells, tools, ninst, codecVars, adapterVars>>

(***************************************************************************)
(* Table adapter: SpreadsheetDirective.resolve on one table body.  A body  *)
(* is a sequence of rows, a row a non-empty sequence of entries (docutils  *)
(* puts nothing else in a tbody or a row); morecols = 0 stands for an      *)
(* entry without the attribute.                                            *)
(***************************************************************************)
NoFormula == [op |-> "none"]
\* the cell text "={b# + @1}"
MarkerFormula == BinOp("+", Name(<< "b", "#" >>), Name(<< "@", "1" >>))
EntryFormulas == {NoFormula, MarkerFormula}
Entries == [formula : EntryFormulas, morecols : 0..MaxSpan]

TableRowsUpTo(n) == UNION {[1..k -> Entries] : k \in 1..n}
RECURSIVE TablesUpTo(_, _)
TablesUpTo(m, n) ==
    {<< >>} \cup
    (IF m = 0 \/ n = 0 THEN {}
     ELSE UNION { { << r >> \o t : t \in TablesUpTo(m - 1, n - Len(r)) }
                  : r \in TableRowsUpTo(n) })
Tables == TablesUpTo(MaxTableRows, MaxTableCells) \ {<< >>}

\* parse_entry(entry, '0'): the formula between "={" and "}", or the default
parse_entry(entry, default_text) ==
    IF entry.formula = NoFormula THEN default_text ELSE entry.formula

\* str.replace(old, new) for a one-character old
RECURSIVE replace(_, _, _)
replace(t, old, new) ==
    IF t = << >> THEN << >>
    ELSE (IF t[1] = old THEN new ELSE << t[1] >>) \o replace(Tail(t), old, new)

\* text.replace(old, new) seen on the parse tree of the text: the names and
\* the string literals are where a marker can stand
RECURSIVE replace_in(_, _, _)
replace_in(e, old, new) ==
    CASE e.op = "num" -> e
      [] e.op = "name" -> Name(replace(e.id, old, new))
      [] e.op = "bin" -> BinOp(e.f, replace_in(e.l, old, new), replace_in(e.r, old, new))
      [] e.op = "call" -> Call(e.f, replace(e.arg, old, new))

\* the text stored for an entry: markers @ and # replaced by column and row
entry_text(entry, c, r) ==
    replace_in(replace_in(parse_entry(entry, Num(0)), "@", col_coords(c)),
               "#", row_coords(r))

\* ax = s.coords(col + offset, row) of the second loop, the offset left out
read_coords_without_offset(c, off, r) == coords(c, r)

\* ax = s.coords(col + offset, row) of the first loop
write_coords(c, off, r) == coords(c + off, r)

\* ax = s.coords(col + offset, row) of the second loop
read_coords(c, off, r) == coords(c + off, r)

\* if body[row][col].hasattr('morecols'): offset += body[row][col].get('morecols')
next_offset(off, entry) == off + entry.morecols

\* resolve(ssn) up to the first loop: s = SpreadSheet()
Resolve ==
    /\ pc = "idle"
    /\ ninst < MaxInstances
    /\ \E b \in Tables : body' = b
    /\ ninst' = ninst + 1
    /\ tools' = (SumName :> (ninst + 1)) @@ tools
    /\ pc' = "write"
    /\ row' = 0 /\ col' = 0 /\ offset' = 0
    /\ log' = << >>
    /\ UNCHANGED <<cells, last, codecVars>>

\* one iteration of the inner loop of "Copy values and formulae from table
\* to spreadsheet", and the loop control up to the next iteration
WriteEntry ==
    /\ pc = "write"
    /\ LET entry == body[row + 1][col + 1]
           ax == write_coords(col, offset, row)
       IN  /\ cells' = setitem(cells, ax, entry_text(entry, col + offset, row))
           /\ log' = Append(log, [op |-> "write", row |-> row, col |-> col, ax |-> ax,
                                  out |-> Ret(0, 0)])
           /\ IF col + 1 < Len(body[row + 1])
              THEN /\ col' = col + 1 /\ offset' = next_offset(offset, entry)
                   /\ UNCHANGED <<row, pc>>
              ELSE /\ col' = 0 /\ offset' = 0
                   /\ IF row + 1 < Len(body)
                      THEN row' = row + 1 /\ UNCHANGED pc
                      ELSE row' = 0 /\ pc' = "read"
    /\ UNCHANGED <<body, tools, ninst, last, codecVars>>

\* one iteration of the inner loop of "Copy values from spreadsheet to
\* table": replace_value(entry, s[ax]); an exception of s[ax] leaves resolve
ReadEntry ==
    /\ pc = "read"
    /\ LET entry == body[row + 1][col + 1]
           ax == read_coords(col, offset, row)
           v == getitem(cells, tools, ax, 0)
       IN  /\ log' = Append(log, [op |-> "read", row |-> row, col |-> col, ax |-> ax,
                                  out |-> v])
           /\ IF ~v.ok
              THEN pc' = "failed" /\ UNCHANGED <<row, col, offset>>
              ELSE IF col + 1 < Len(body[row + 1])
              THEN /\ col' = col + 1 /\ offset' = next_offset(offset, entry)
                   /\ UNCHANGED <<row, pc>>
              ELSE /\ col' = 0 /\ offset' = 0
                   /\ IF row + 1 < Len(body)
                      THEN row' = row + 1 /\ UNCHANGED pc
                      ELSE row' = 0 /\ pc' = "done"
    /\ UNCHANGED <<body, cells, tools, ninst, last, codecVars>>

(***************************************************************************)
(* Specifications.                                                         *)
(***************************************************************************)
\* The process after import: the class dicts are empty, nothing was called
Init ==
    /\ ccall = [op |-> "none", col |-> 0, row |-> 0, colstr |-> << >>, text |-> << >>,
                encoded |-> FALSE, out |-> NotCalled]
    /\ cells = << >>
    /\ tools = << >>
    /\ ninst = 0
    /\ last = [op |-> "none", key |-> << >>, out |-> Exc("not called", 0)]
    /\ body = << >>
    /\ pc = "idle"
    /\ row = 0
    /\ col = 0
    /\ offset = 0
    /\ log = << >>

CodecNext ==
    \/ Coords
    \/ InvCoordsOfCoords
    \/ InvCoordsOfText

EngineNext ==
    \/ New
    \/ \E k \in StoreKeys, f \in Formulas : SetItem(k, f)
    \/ \E k \in ReadKeys : GetFormula(k)
    \/ \E k \in ReadKeys : GetItem(k)
    \/ \E t \in RangeTexts : Sum(t)

AdapterNext ==
    \/ Resolve
    \/ WriteEntry
    \/ ReadEntry

SpecCodec == Init /\ [][CodecNext]_vars
SpecEngine == Init /\ [][EngineNext]_vars

SpecAdapter == Init /\ [][AdapterNext]_vars

(***************************************************************************)
(* Properties of the codec, under SpecCodec.                               *)
(***************************************************************************)
RECURSIVE Pow26(_)
Pow26(k) == IF k = 0 THEN 1 ELSE 26 * Pow26(k - 1)
\* the number of column names of fewer than n letters
RECURSIVE ShorterNames(_)
ShorterNames(n) == IF n <= 1 THEN 0 ELSE ShorterNames(n - 1) + Pow26(n - 1)
\* bijective base 26 by its definition: the names in order of length, and
\* within one length in the order of ordinary base 26 with digits a..z
RefColumn(n) ==
    LET len == CHOOSE k \in 1..6 : ShorterNames(k) <= n /\ n < ShorterNames(k + 1)
        m == n - ShorterNames(len)
    IN  [i \in 1..len |-> Letters[((m \div Pow26(len - i)) % 26) + 1]]

\* C4: inv_coords(coords(c, r)) returns (c, r) for every column and row of the
\* supported range; two pairs with one text would both have to be what
\* inv_coords returns for it, so coords is injective there.
C4_RoundTrip ==
    (ccall.op = "inv_coords" /\ ccall.encoded) =>
        (ccall.out.ok /\ ccall.out.val = << ccall.col, ccall.row >>)

C4_Witness ==
    /\ ccall.op = "inv_coords" /\ ccall.encoded
    /\ ccall.col = 18277 /\ ccall.row = 999999
    /\ ccall.text = << "z", "z", "z", "1", "0", "0", "0", "0", "0", "0" >>
    /\ ccall.out.ok

\* C7: col_coords is bijective base 26: it equals the reference encoding for
\* every column of the range, has the stated boundary values, and each
\* iteration of its loop strictly lowers col (down to -1 at least), so the
\* loop ends.
C7_EncodeColumn ==
    (ccall.op = "coords") =>
        /\ ccall.colstr = RefColumn(ccall.col)
        /\ col_coords_step(ccall.col) < ccall.col
        /\ col_coords_step(ccall.col) >= -1
        /\ (ccall.col = 0 => ccall.colstr = << "a" >>)
        /\ (ccall.col = 25 => ccall.colstr = << "z" >>)
        /\ (ccall.col = 26 => ccall.colstr = << "a", "a" >>)
        /\ (ccall.col = 27 => ccall.colstr = << "a", "b" >>)
        /\ (ccall.col = 701 => ccall.colstr = << "z", "z" >>)
        /\ (ccall.col = 702 => ccall.colstr = << "a", "a", "a" >>)

C7_Witness ==
    ccall.op = "coords" /\ ccall.col = 702 /\ ccall.colstr = << "a", "a", "a" >>

\* the whole text is one or more letters a..z followed by one or more digits
WellFormedCoordinate(t) ==
    \E k \in 1..(Len(t) - 1) :
        /\ \A i \in 1..k : IsLetter(t[i])
        /\ \A i \in (k + 1)..Len(t) : IsDigit(t[i])

\* C9: inv_coords fails for every text that is not, as a whole, letters
\* followed by digits, and returns a pair only for texts of that form.
C9_DecodeRejectsMalformed ==
    (ccall.op = "inv_coords") => (ccall.out.ok <=> WellFormedCoordinate(ccall.text))

(***************************************************************************)
(* Properties of the engine, under SpecEngine.                             *)
(***************************************************************************)
\* the coordinates of the inclusive rectangle two decoded endpoints span
Rectangle(p, q) ==
    LET c1 == IF p[1] <= q[1] THEN p[1] ELSE q[1]
        c2 == IF p[1] <= q[1] THEN q[1] ELSE p[1]
        l1 == IF p[2] <= q[2] THEN p[2] ELSE q[2]
        l2 == IF p[2] <= q[2] THEN q[2] ELSE p[2]
    IN  { coords(c, l) : c \in c1..c2, l \in l1..l2 }

\* the number of ":" in a text, and the texts on both sides of the first
Colons(t) == Cardinality({ i \in 1..Len(t) : t[i] = ":" })
FirstColon(t) == CHOOSE i \in 1..Len(t) : t[i] = ":" /\ \A k \in 1..(i - 1) : t[k] # ":"
Before(t) == SubSeq(t, 1, FirstColon(t) - 1)
After(t) == SubSeq(t, FirstColon(t) + 1, Len(t))

\* the coordinates a formula reads
RECURSIVE Reads(_)
Reads(e) ==
    CASE e.op = "num" -> {}
      [] e.op = "name" -> {e.id}
      [] e.op = "bin" -> Reads(e.l) \cup Reads(e.r)
      [] e.op = "call" ->
            IF Colons(e.arg) = 1 /\ inv_coords(Before(e.arg)).ok /\ inv_coords(After(e.arg)).ok
            THEN Rectangle(inv_coords(Before(e.arg)).val, inv_coords(After(e.arg)).val)
            ELSE {}

\* the coordinates the formula of k depends on, in one or more steps
RECURSIVE ReadsWithin(_, _)
ReadsWithin(ks, n) ==
    IF n = 0 THEN ks
    ELSE ReadsWithin(ks \cup UNION { Reads(cells[k]) : k \in ks \cap DOMAIN cells }, n - 1)
DependsOn(k) ==
    IF k \in DOMAIN cells
    THEN ReadsWithin(Reads(cells[k]), Cardinality(DOMAIN cells))
    ELSE {}

\* C1: the value of a coordinate whose formula references it, directly or
\* transitively, ends in a CircularReference failure raised when the
\* coordinate is entered again, so no more evaluations are ever nested than
\* there are formulas, plus the one that is refused.
C1_CircularReference ==
    (last.op = "getitem" /\ last.key \in DependsOn(last.key)) =>
        /\ ~last.out.ok
        /\ last.out.exc = "CircularReference"
        /\ last.out.peak <= Cardinality(DOMAIN cells) + 1

\* C2: the value of a coordinate without a formula is 0, with no error:
\* asked for directly, named in another formula, or inside a summed range.
C2_UnsetIsZero ==
    /\ (last.op = "getitem" /\ last.key \notin DOMAIN cells) =>
            (last.out.ok /\ last.out.val = 0)
    /\ (/\ last.op = "getitem" /\ last.key \in DOMAIN cells
        /\ cells[last.key].op = "name"
        /\ cells[last.key].id \notin DOMAIN cells) =>
            (last.out.ok /\ last.out.val = 0)
    /\ (/\ last.op = "sum" /\ last.key = Range(A1, A2)
        /\ A1 \notin DOMAIN cells /\ A2 \notin DOMAIN cells) =>
            (last.out.ok /\ last.out.val = 0)

\* C3: a newly constructed engine holds no formula: getformula finds none of
\* those stored through the instances constructed before it.
C3_FreshInstanceIsEmpty ==
    (last.op = "new") => \A k \in ReadKeys : ~getformula(cells, k).ok

\* the total of the values of a set of coordinates
RECURSIVE TotalOf(_)
TotalOf(ks) ==
    IF ks = {} THEN 0
    ELSE LET k == CHOOSE x \in ks : TRUE
         IN  getitem(cells, tools, k, 0).val + TotalOf(ks \ {k})

\* C5: for a range text whose two endpoints decode, sum returns the total of
\* the values of the coordinates of the inclusive rectangle the endpoints
\* span (stated where each of these values exists).
C5_SumOverRectangle ==
    (/\ last.op = "sum" /\ Colons(last.key) = 1
     /\ inv_coords(Before(last.key)).ok /\ inv_coords(After(last.key)).ok) =>
        LET rect == Rectangle(inv_coords(Before(last.key)).val,
                              inv_coords(After(last.key)).val)
        IN  (\A k \in rect : getitem(cells, tools, k, 0).ok) =>
                (last.out.ok /\ last.out.val = TotalOf(rect))

\* C6: "a1/a2" over two integer literals x and y, y not zero, is the exact
\* quotient: the value times y is x.
C6_TrueDivision ==
    (/\ last.op = "getitem" /\ last.key \in DOMAIN cells
     /\ cells[last.key] = BinOp("/", Name(A1), Name(A2))
     /\ A1 \in DOMAIN cells /\ A2 \in DOMAIN cells
     /\ cells[A1].op = "num" /\ cells[A2].op = "num" /\ cells[A2].n # 0) =>
        (last.out.ok /\ last.out.val * cells[A2].n = cells[A1].n)

\* a range text without exactly one ":", or with an endpoint inv_coords rejects
MalformedRange(t) ==
    \/ Colons(t) # 1
    \/ ~inv_coords(Before(t)).ok
    \/ ~inv_coords(After(t)).ok
\* the exceptions of the unpacking of the split and of the failed search
RangeFailure(out) == ~out.ok /\ out.exc \in {"ValueError", "AttributeError"}

RECURSIVE SpannedBefore(_, _)
SpannedBefore(r, i) ==
    IF i = 0 THEN 0 ELSE SpannedBefore(r, i - 1) + body[r + 1][i].morecols

\* C10: the column of the coordinate of the entry at position i of a row is
\* i plus the extra columns spanned by the entries before it in the row; the
\* read phase computes for each entry the coordinate the write phase
\* computed, so each coordinate read was written earlier in the pass, and no
\* write follows a read.
C10_SpanOffsets ==
    /\ \A i \in 1..Len(log) :
            /\ log[i].ax = col_coords(log[i].col + SpannedBefore(log[i].row, log[i].col))
                               \o row_coords(log[i].row)
            /\ inv_coords(log[i].ax).val[1] =
                   log[i].col + SpannedBefore(log[i].row, log[i].col)
            /\ (log[i].op = "read") =>
                   \E j \in 1..(i - 1) :
                       /\ log[j].op = "write"
                       /\ log[j].row = log[i].row /\ log[j].col = log[i].col
                       /\ log[j].ax = log[i].ax
    /\ \A i, j \in 1..Len(log) :
            (i < j /\ log[i].op = "read") => log[j].op = "read"

\* a cell spanning two columns at position 0, the next entry read at "c1"
C10_Witness ==
    /\ pc \in {"read", "done"}
    /\ Len(body[1]) >= 2
    /\ body[1][1].morecols = 1
    /\ \E i \in 1..Len(log) :
            /\ log[i].op = "read" /\ log[i].row = 0 /\ log[i].col = 1
            /\ log[i].ax = << "c", "1" >>

====
